---- MODULE Spec2Model ----
(***************************************************************************)
(* Azimuth-elevation-range offsets (src/src/aer.rs): the four              *)
(* constructors, the accessors and the conversions from and to ENU.        *)
(*                                                                         *)
(* The scalar N of AER<N> is modelled in fixed point.  An angle or a       *)
(* dimensionless number x is the integer x * Scale (1e-4 rad, 1e-4 deg);   *)
(* a length of x metres is the integer x * Metre (millimetres).  Every     *)
(* operation rounds its exact result to the nearest unit, so conversions   *)
(* between degrees and radians, the trigonometric functions and the square *)
(* root lose precision as they do in the program, at the resolution of the *)
(* model.  NaN and the infinities are not values of the model.             *)
(*                                                                         *)
(* A behaviour follows one offset value: a constructor builds it, the      *)
(* conversions derive further values from it, the accessors read the       *)
(* latest AER value, and Drop ends the scope.                              *)
(***************************************************************************)
EXTENDS Integers, Sequences, FiniteSets, TLC

\* ------------------------------------------------------------------ bounds

\* ENU components offered to ENU::new: -MaxCoord .. MaxCoord metres.
MaxCoord == 2
\* Ranges offered to the constructors: -1, 0, 1 .. MaxRange metres.
MaxRange == 3
\* Conversions applied in a row to one value.
MaxHops == 2

\* ------------------------------------------------------- the scalar N

\* Units per radian, per degree and per 1.0 of a dimensionless number.
Scale == 10000
\* Units per metre.
Metre == 1000

Abs(x) == IF x < 0 THEN -x ELSE x

Sign(x) == IF x < 0 THEN -1 ELSE 1

\* a / c rounded to the nearest integer (c > 0).
RDiv(a, c) == Sign(a) * ((Abs(a) + c \div 2) \div c)

\* a * b / c rounded to the nearest integer, computed without leaving 32 bits
\* (0 < c < 46341).
MulDiv(a, b, c) ==
    LET qa == Abs(a) \div c
        ra == Abs(a) % c
        qb == Abs(b) \div c
        rb == Abs(b) % c
    IN  Sign(a) * Sign(b) * (qa * qb * c + qa * rb + ra * qb + RDiv(ra * rb, c))

\* The product of two numbers of scale Scale.
Mul(a, b) == MulDiv(a, b, Scale)

\* core::f64::consts
TAU == 62832
FRAC_PI_2 == 15708
PI == TAU \div 2
FRAC_PI_4 == FRAC_PI_2 \div 2

\* N::from_f64(360.0), N::from_f64(90.0)
Deg360 == 360 * Scale
Deg90 == 90 * Scale

\* f64::to_radians: x * (PI / 180)
to_radians(x) == RDiv(MulDiv(x, PI, 180), Scale)

\* f64::to_degrees: x * (180 / PI)
to_degrees(x) == MulDiv(x, 180 * Scale, PI)

\* sin and cos on [0, pi/4] by their Taylor polynomials (Horner form).
SinPoly(x) ==
    LET x2 == Mul(x, x)
        t3 == Scale - RDiv(x2, 42)
        t2 == Scale - RDiv(Mul(x2, t3), 20)
        t1 == Scale - RDiv(Mul(x2, t2), 6)
    IN  Mul(x, t1)

CosPoly(x) ==
    LET x2 == Mul(x, x)
        t4 == Scale - RDiv(x2, 56)
        t3 == Scale - RDiv(Mul(x2, t4), 30)
        t2 == Scale - RDiv(Mul(x2, t3), 12)
    IN  Scale - RDiv(Mul(x2, t2), 2)

\* <<sin r, cos r>> for r in [0, pi/2].
SinCosQuadrant(r) ==
    IF r <= FRAC_PI_4
    THEN <<SinPoly(r), CosPoly(r)>>
    ELSE <<CosPoly(FRAC_PI_2 - r), SinPoly(FRAC_PI_2 - r)>>

sin(x) ==
    LET m == x % TAU
        q == m \div FRAC_PI_2
        sc == SinCosQuadrant(m % FRAC_PI_2)
    IN  CASE q = 0 -> sc[1]
          [] q = 1 -> sc[2]
          [] q = 2 -> -sc[1]
          [] OTHER -> -sc[2]

cos(x) ==
    LET m == x % TAU
        q == m \div FRAC_PI_2
        sc == SinCosQuadrant(m % FRAC_PI_2)
    IN  CASE q = 0 -> sc[2]
          [] q = 1 -> -sc[1]
          [] q = 2 -> -sc[2]
          [] OTHER -> sc[1]

\* atan by its Taylor polynomial, for |u| <= tan(pi/8).
AtanPoly(u) ==
    LET u2 == Mul(u, u)
        t4 == RDiv(Scale, 7) - Mul(u2, RDiv(Scale, 9))
        t3 == RDiv(Scale, 5) - Mul(u2, t4)
        t2 == RDiv(Scale, 3) - Mul(u2, t3)
        t1 == Scale - Mul(u2, t2)
    IN  Mul(u, t1)

\* atan t for t in [0, 1]; above 0.4, atan t = pi/4 + atan((t - 1) / (t + 1)).
Atan01(t) ==
    IF 5 * t <= 2 * Scale
    THEN AtanPoly(t)
    ELSE FRAC_PI_4 + AtanPoly(RDiv((t - Scale) * Scale, t + Scale))

\* atan2(y, x): the angle in [-pi, pi] of the direction (x, y); 0 for (0, 0).
atan2(y, x) ==
    LET a == Abs(y)
        b == Abs(x)
        th == IF a = 0 /\ b = 0 THEN 0
              ELSE IF a <= b THEN Atan01(RDiv(a * Scale, b))
              ELSE FRAC_PI_2 - Atan01(RDiv(b * Scale, a))
        th2 == IF x < 0 THEN PI - th ELSE th
    IN  IF y < 0 THEN -th2 ELSE th2

\* Newton's iteration for the integer square root, from above.
RECURSIVE SqrtIter(_, _)
SqrtIter(n, r) ==
    LET r2 == (r + n \div r) \div 2
    IN  IF r2 >= r THEN r ELSE SqrtIter(n, r2)

\* f64::sqrt, rounded to the nearest unit.
sqrt(n) ==
    IF n = 0 THEN 0
    ELSE LET r == SqrtIter(n, n)
         IN  IF n - r * r > r THEN r + 1 ELSE r

\* ------------------------------------------------------------ the values

\* struct AER<N>: azimuth and elevation in radians, range in metres.
AER(az, el, r) == [kind |-> "AER", azimuth |-> az, elevation |-> el, range |-> r]

\* ENU::new: an east-north-up offset in metres.
ENU(e, n, u) == [kind |-> "ENU", east |-> e, north |-> n, up |-> u]

\* ENU::norm: the Euclidean magnitude of the three components.
norm(enu) == sqrt(enu.east * enu.east + enu.north * enu.north + enu.up * enu.up)

\* What a constructor gives: the value, a panic, or Option::None.
Ok(v) == [tag |-> "ok", val |-> v]
Panic == [tag |-> "panic", val |-> AER(0, 0, 0)]
None == [tag |-> "none", val |-> AER(0, 0, 0)]

\* --------------------------------------------------------- constructors

\* Mutation of from_degrees_and_meters: the azimuth 360 is rejected.
from_degrees_and_meters_open(azimuth, elevation, range) ==
    IF ~(0 <= azimuth /\ azimuth < Deg360) THEN Panic
    ELSE IF ~(Abs(elevation) <= Deg90) THEN Panic
    ELSE Ok(AER(to_radians(azimuth), to_radians(elevation), range))

from_degrees_and_meters(azimuth, elevation, range) ==
    IF ~(0 <= azimuth /\ azimuth <= Deg360) THEN Panic
    ELSE IF ~(Abs(elevation) <= Deg90) THEN Panic
    ELSE Ok(AER(to_radians(azimuth), to_radians(elevation), range))

\* Mutation of try_from_degrees_and_meters: the angles are stored in degrees.
try_from_degrees_and_meters_unconverted(azimuth, elevation, range) ==
    IF 0 <= azimuth /\ azimuth <= Deg360 /\ Abs(elevation) <= Deg90
    THEN Ok(AER(azimuth, elevation, range))
    ELSE None

\* Mutation of try_from_degrees_and_meters: the elevation has no lower limit.
try_from_degrees_and_meters_signed(azimuth, elevation, range) ==
    IF 0 <= azimuth /\ azimuth <= Deg360 /\ elevation <= Deg90
    THEN Ok(AER(to_radians(azimuth), to_radians(elevation), range))
    ELSE None

try_from_degrees_and_meters(azimuth, elevation, range) ==
    IF 0 <= azimuth /\ azimuth <= Deg360 /\ Abs(elevation) <= Deg90
    THEN Ok(AER(to_radians(azimuth), to_radians(elevation), range))
    ELSE None

\* Mutation of from_radians_and_meters: the limits are those of the degrees.
from_radians_and_meters_degree_limits(azimuth, elevation, range) ==
    IF ~(0 <= azimuth /\ azimuth <= Deg360) THEN Panic
    ELSE IF ~(Abs(elevation) <= Deg90) THEN Panic
    ELSE Ok(AER(azimuth, elevation, range))

from_radians_and_meters(azimuth, elevation, range) ==
    IF ~(0 <= azimuth /\ azimuth <= TAU) THEN Panic
    ELSE IF ~(Abs(elevation) <= FRAC_PI_2) THEN Panic
    ELSE Ok(AER(azimuth, elevation, range))

\* Mutation of try_from_radians_and_meters: a negative range is rejected.
try_from_radians_and_meters_range_checked(azimuth, elevation, range) ==
    IF 0 <= azimuth /\ azimuth <= TAU /\ Abs(elevation) <= FRAC_PI_2 /\ range >= 0
    THEN Ok(AER(azimuth, elevation, range))
    ELSE None

try_from_radians_and_meters(azimuth, elevation, range) ==
    IF 0 <= azimuth /\ azimuth <= TAU /\ Abs(elevation) <= FRAC_PI_2
    THEN Ok(AER(azimuth, elevation, range))
    ELSE None

\* ------------------------------------------------------------ accessors

azimuth_degrees(self) == to_degrees(self.azimuth)

elevation_degrees(self) == to_degrees(self.elevation)

azimuth_radians(self) == self.azimuth

elevation_radians(self) == self.elevation

range(self) == to_degrees(self.range)

\* ---------------------------------------------------------- conversions

\* Mutation of AER_from: a negative azimuth is left as it is.
AER_from_no_wrap(enu) ==
    LET horizontal_distance == sqrt(enu.east * enu.east + enu.north * enu.north)
    IN  AER(atan2(enu.east, enu.north), atan2(enu.up, horizontal_distance), norm(enu))

\* Mutation of AER_from: the azimuth is measured from east, counterclockwise.
AER_from_math_atan2(enu) ==
    LET horizontal_distance == sqrt(enu.east * enu.east + enu.north * enu.north)
        azimuth0 == atan2(enu.north, enu.east)
        azimuth == IF azimuth0 < 0 THEN azimuth0 + TAU ELSE azimuth0
    IN  AER(azimuth, atan2(enu.up, horizontal_distance), norm(enu))

\* impl From<ENU<N>> for AER<N>
AER_from(enu) ==
    LET horizontal_distance == sqrt(enu.east * enu.east + enu.north * enu.north)
        azimuth0 == atan2(enu.east, enu.north)
        azimuth == IF azimuth0 < 0 THEN azimuth0 + TAU ELSE azimuth0
    IN  AER(azimuth, atan2(enu.up, horizontal_distance), norm(enu))

\* Mutation of ENU_from: east and north are exchanged.
ENU_from_swapped(aer) ==
    ENU(MulDiv(Mul(cos(aer.azimuth), cos(aer.elevation)), aer.range, Scale),
        MulDiv(Mul(sin(aer.azimuth), cos(aer.elevation)), aer.range, Scale),
        MulDiv(sin(aer.elevation), aer.range, Scale))

\* Mutation of ENU_from: east and north are not scaled by cos(elevation).
ENU_from_flat(aer) ==
    ENU(MulDiv(sin(aer.azimuth), aer.range, Scale),
        MulDiv(cos(aer.azimuth), aer.range, Scale),
        MulDiv(sin(aer.elevation), aer.range, Scale))

\* impl From<AER<N>> for ENU<N>
ENU_from(aer) ==
    ENU(MulDiv(Mul(sin(aer.azimuth), cos(aer.elevation)), aer.range, Scale),
        MulDiv(Mul(cos(aer.azimuth), cos(aer.elevation)), aer.range, Scale),
        MulDiv(sin(aer.elevation), aer.range, Scale))

\* ------------------------------------------------------------ the inputs

\* Degrees: every 45 degrees from -45 to 405, and one unit beyond each limit.
AzimuthsDegrees == {k * 45 * Scale : k \in -1..9} \cup {-1, Deg360 + 1}
ElevationsDegrees == {k * 45 * Scale : k \in -3..3} \cup {-Deg90 - 1, Deg90 + 1}

\* Radians: every eighth of a turn, and one unit beyond each limit.
AzimuthsRadians == {k * FRAC_PI_4 : k \in -1..9} \cup {-1, TAU + 1}
ElevationsRadians == {k * FRAC_PI_4 : k \in -3..3} \cup {-FRAC_PI_2 - 1, FRAC_PI_2 + 1}

Ranges == {k * Metre : k \in -1..MaxRange}

\* The offsets of tests::double_conversion_is_identity and
\* tests::known_good_enu_conversion, in degrees and metres.
TestDegrees == {<<10 * Scale, 20 * Scale, 30 * Metre>>, <<341160, 41931, 15107>>}

Coords == {k * Metre : k \in -MaxCoord..MaxCoord}

\* The offsets of tests::double_conversion_is_identity,
\* tests::known_good_enu_conversion and tests::point_to_west_is_positive_az.
TestOffsets == {<<1 * Metre, 2 * Metre, 3 * Metre>>, <<8450, 12474, 1105>>,
                <<-10 * Metre, 0, 0>>}

\* ------------------------------------------------------------- the state

VARIABLES
    op,       \* the operation that ran last
    built,    \* the operation that built the first value, with
    args,     \* its arguments
    outcome,  \* how the last operation ended: "ok", "panic" or "none"
    vals,     \* the value built and the values converted from it, in order
    ret       \* what the last accessor returned

vars == <<op, built, args, outcome, vals, ret>>

Init ==
    /\ op = "init"
    /\ built = "init"
    /\ args = <<0, 0, 0>>
    /\ outcome = "ok"
    /\ vals = <<>>
    /\ ret = 0

\* The latest value.
Cur == vals[Len(vals)]

\* The constructor `name` called on `in` gave `res`.
Construct(name, in, res) ==
    /\ op' = name
    /\ built' = name
    /\ args' = in
    /\ outcome' = res.tag
    /\ vals' = IF res.tag = "ok" THEN <<res.val>> ELSE <<>>
    /\ ret' = 0

FromDegreesAndMeters ==
    /\ op = "init"
    /\ \E in \in (AzimuthsDegrees \X ElevationsDegrees \X Ranges) \cup TestDegrees :
           Construct("from_degrees_and_meters", in,
                     from_degrees_and_meters(in[1], in[2], in[3]))

TryFromDegreesAndMeters ==
    /\ op = "init"
    /\ \E in \in (AzimuthsDegrees \X ElevationsDegrees \X Ranges) \cup TestDegrees :
           Construct("try_from_degrees_and_meters", in,
                     try_from_degrees_and_meters(in[1], in[2], in[3]))

FromRadiansAndMeters ==
    /\ op = "init"
    /\ \E in \in AzimuthsRadians \X ElevationsRadians \X Ranges :
           Construct("from_radians_and_meters", in,
                     from_radians_and_meters(in[1], in[2], in[3]))

TryFromRadiansAndMeters ==
    /\ op = "init"
    /\ \E in \in AzimuthsRadians \X ElevationsRadians \X Ranges :
           Construct("try_from_radians_and_meters", in,
                     try_from_radians_and_meters(in[1], in[2], in[3]))

EnuNew ==
    /\ op = "init"
    /\ \E in \in (Coords \X Coords \X Coords) \cup TestOffsets :
           Construct("ENU::new", in, Ok(ENU(in[1], in[2], in[3])))

\* A conversion appended `v` to the values.
Convert(name, v) ==
    /\ Len(vals) <= MaxHops
    /\ op' = name
    /\ outcome' = "ok"
    /\ vals' = Append(vals, v)
    /\ ret' = 0
    /\ UNCHANGED <<built, args>>

AerFromEnu ==
    /\ vals # <<>>
    /\ Cur.kind = "ENU"
    /\ Convert("AER::from", AER_from(Cur))

EnuFromAer ==
    /\ vals # <<>>
    /\ Cur.kind = "AER"
    /\ Convert("ENU::from", ENU_from(Cur))

\* An accessor of the latest AER value returned `v`.
Access(name, v) ==
    /\ op' = name
    /\ outcome' = "ok"
    /\ ret' = v
    /\ UNCHANGED <<built, args, vals>>

AzimuthDegrees ==
    /\ vals # <<>>
    /\ Cur.kind = "AER"
    /\ Access("azimuth_degrees", azimuth_degrees(Cur))

ElevationDegrees ==
    /\ vals # <<>>
    /\ Cur.kind = "AER"
    /\ Access("elevation_degrees", elevation_degrees(Cur))

AzimuthRadians ==
    /\ vals # <<>>
    /\ Cur.kind = "AER"
    /\ Access("azimuth_radians", azimuth_radians(Cur))

ElevationRadians ==
    /\ vals # <<>>
    /\ Cur.kind = "AER"
    /\ Access("elevation_radians", elevation_radians(Cur))

Range ==
    /\ vals # <<>>
    /\ Cur.kind = "AER"
    /\ Access("range", range(Cur))

\* The values go out of scope.
Drop ==
    /\ op # "init"
    /\ op' = "init"
    /\ built' = "init"
    /\ args' = <<0, 0, 0>>
    /\ outcome' = "ok"
    /\ vals' = <<>>
    /\ ret' = 0

Next ==
    \/ FromDegreesAndMeters
    \/ TryFromDegreesAndMeters
    \/ FromRadiansAndMeters
    \/ TryFromRadiansAndMeters
    \/ EnuNew
    \/ AerFromEnu
    \/ EnuFromAer
    \/ AzimuthDegrees
    \/ ElevationDegrees
    \/ AzimuthRadians
    \/ ElevationRadians
    \/ Range
    \/ Drop

Spec == Init /\ [][Next]_vars

\* ------------------------------------------------------------ the claims

StrictConstructors == {"from_degrees_and_meters", "from_radians_and_meters"}
CheckedConstructors == {"try_from_degrees_and_meters", "try_from_radians_and_meters"}
DegreeConstructors == {"from_degrees_and_meters", "try_from_degrees_and_meters"}
RadianConstructors == {"from_radians_and_meters", "try_from_radians_and_meters"}

\* How a constructor reports a rejected input.
Rejection(name) == IF name \in StrictConstructors THEN "panic" ELSE "none"

\* The tolerance of the tests (0.0001), at the resolution of the model: five
\* units of the scalar.
Tol == 5

Close(a, b, tol) == Abs(a - b) <= tol

\* C1: the degree constructors reject an azimuth outside [0, 360] or an
\* elevation outside [-90, 90] (the strict one panics, the checked one returns
\* None) and accept every input within, the limits included, whatever the
\* range.
C1_DegreeValidation ==
    op \in DegreeConstructors =>
        /\ (args[1] < 0 \/ args[1] > Deg360 \/ args[2] < -Deg90 \/ args[2] > Deg90)
               => outcome = Rejection(op) /\ vals = <<>>
        /\ (0 <= args[1] /\ args[1] <= Deg360 /\ -Deg90 <= args[2] /\ args[2] <= Deg90)
               => outcome = "ok" /\ Len(vals) = 1 /\ vals[1].kind = "AER"

\* Azimuth 360 and elevation -90 with a negative range are accepted.
C1_Witness ==
    /\ op = "from_degrees_and_meters"
    /\ args = <<Deg360, -Deg90, -Metre>>
    /\ outcome = "ok"

\* C2: range() returns the range unchanged: the range given to the
\* constructor, or the norm of the ENU offset the value was converted from.
C2_RangeUnchanged ==
    (op = "range") =>
        /\ ret = Cur.range
        /\ (Len(vals) = 1 => ret = args[3])
        /\ (Len(vals) = 2 /\ built = "ENU::new" => ret = norm(vals[1]))

\* The AER values among the values held.
AerAt == {i \in DOMAIN vals : vals[i].kind = "AER"}
EnuAt == {i \in DOMAIN vals : vals[i].kind = "ENU"}

\* C3 as stated: every AER value has its azimuth in [0, 2 pi), its elevation
\* in [-pi/2, pi/2] and a range >= 0.
C3_DataModelInvariant ==
    \A i \in AerAt :
        /\ 0 <= vals[i].azimuth /\ vals[i].azimuth < TAU
        /\ Abs(vals[i].elevation) <= FRAC_PI_2
        /\ vals[i].range >= 0

\* C3 as amended: every AER value has its azimuth in [0, 2 pi], 2 pi
\* included, and its elevation in [-pi/2, pi/2]; a constructor stores the
\* range it is given, of either sign, and a conversion from ENU gives a
\* range >= 0.
C3_StoredRanges ==
    \A i \in AerAt :
        /\ 0 <= vals[i].azimuth /\ vals[i].azimuth <= TAU
        /\ Abs(vals[i].elevation) <= FRAC_PI_2
        /\ (i = 1 => vals[i].range = args[3])
        /\ (i > 1 => vals[i].range >= 0)

\* A constructor stored the azimuth 2 pi and a negative range.
C3_Witness ==
    /\ op = "try_from_degrees_and_meters"
    /\ outcome = "ok"
    /\ vals[1].azimuth = TAU
    /\ vals[1].range < 0

SinEighth(k) ==
    CASE k % 8 \in {0, 4} -> 0
      [] k % 8 \in {1, 3} -> 7071
      [] k % 8 = 2 -> Scale
      [] k % 8 \in {5, 7} -> -7071
      [] OTHER -> -Scale

CosEighth(k) == SinEighth(k + 2)

\* C5: the ENU offset converted from an AER value is
\* (range sin az cos el, range cos az cos el, range sin el): checked against
\* the known sines and cosines at every eighth of a turn, and against the
\* known offset (8.4504, 12.4737, 1.1046) for azimuth 34.1160 degrees,
\* elevation 4.1931 degrees and range 15.1070 m, within 1e-3 m.
C5_EnuFromAer ==
    \A i \in AerAt : i < Len(vals) =>
        LET aer == vals[i]
            enu == vals[i + 1]
            k == aer.azimuth \div FRAC_PI_4
            j == aer.elevation \div FRAC_PI_4
        IN  /\ (aer.azimuth % FRAC_PI_4 = 0 /\ aer.elevation % FRAC_PI_4 = 0) =>
                /\ Close(enu.east,
                         MulDiv(Mul(SinEighth(k), CosEighth(j)), aer.range, Scale), Tol)
                /\ Close(enu.north,
                         MulDiv(Mul(CosEighth(k), CosEighth(j)), aer.range, Scale), Tol)
                /\ Close(enu.up, MulDiv(SinEighth(j), aer.range, Scale), Tol)
            /\ (aer = AER(to_radians(341160), to_radians(41931), 15107)) =>
                /\ Close(enu.east, 8450, Metre \div 1000)
                /\ Close(enu.north, 12474, Metre \div 1000)
                /\ Close(enu.up, 1105, Metre \div 1000)

\* The offset of tests::known_good_enu_conversion was converted to ENU.
C5_Witness ==
    /\ Len(vals) >= 2
    /\ vals[1] = AER(to_radians(341160), to_radians(41931), 15107)
    /\ vals[2].kind = "ENU"

CloseAer(a, b) ==
    /\ Close(a.azimuth, b.azimuth, Tol)
    /\ Close(a.elevation, b.elevation, Tol)
    /\ Close(a.range, b.range, Tol)

C8_RadianValidation ==
    /\ op \in RadianConstructors =>
        /\ (args[1] < 0 \/ args[1] > TAU \/ args[2] < -FRAC_PI_2 \/ args[2] > FRAC_PI_2)
               => outcome = Rejection(op) /\ vals = <<>>
        /\ (0 <= args[1] /\ args[1] <= TAU /\ -FRAC_PI_2 <= args[2] /\ args[2] <= FRAC_PI_2)
               => outcome = "ok" /\ vals = <<AER(args[1], args[2], args[3])>>
    /\ (built \in RadianConstructors /\ Len(vals) = 1) =>
        /\ (op = "azimuth_radians" => ret = args[1])
        /\ (op = "elevation_radians" => ret = args[2])

\* elevation_radians() read back the limit -pi/2 given to the strict
\* constructor together with the azimuth 2 pi.
C8_Witness ==
    /\ built = "from_radians_and_meters"
    /\ args[1] = TAU
    /\ args[2] = -FRAC_PI_2
    /\ op = "elevation_radians"
    /\ ret = -FRAC_PI_2

Accessors ==
    {"azimuth_degrees", "elevation_degrees", "azimuth_radians", "elevation_radians",
     "range"}

\* The azimuth and elevation of a constructor's arguments are within its limits.
WellFormed(name, in) ==
    IF name \in DegreeConstructors
    THEN 0 <= in[1] /\ in[1] <= Deg360 /\ Abs(in[2]) <= Deg90
    ELSE 0 <= in[1] /\ in[1] <= TAU /\ Abs(in[2]) <= FRAC_PI_2

\* The largest magnitude among the components of an ENU offset.
MaxAbs(enu) ==
    LET m == IF Abs(enu.east) >= Abs(enu.north) THEN Abs(enu.east) ELSE Abs(enu.north)
    IN  IF m >= Abs(enu.up) THEN m ELSE Abs(enu.up)

Constructed(name, in) ==
    CASE name = "from_degrees_and_meters" -> from_degrees_and_meters(in[1], in[2], in[3])
      [] name = "try_from_degrees_and_meters" ->
             try_from_degrees_and_meters(in[1], in[2], in[3])
      [] name = "from_radians_and_meters" -> from_radians_and_meters(in[1], in[2], in[3])
      [] OTHER -> try_from_radians_and_meters(in[1], in[2], in[3])

\* The other constructor of the same unit.
Twin(name) ==
    CASE name = "from_degrees_and_meters" -> "try_from_degrees_and_meters"
      [] name = "try_from_degrees_and_meters" -> "from_degrees_and_meters"
      [] name = "from_radians_and_meters" -> "try_from_radians_and_meters"
      [] OTHER -> "from_radians_and_meters"

\* C10: on every input the strict and the checked constructor of a unit agree:
\* one accepts exactly when the other does, with the same value field for
\* field, and a panic of the one is a None of the other.
C10_StrictCheckedAgree ==
    op \in StrictConstructors \cup CheckedConstructors =>
        LET twin == Constructed(Twin(op), args)
        IN  /\ (outcome = "ok") = (twin.tag = "ok")
            /\ outcome = "ok" => vals = <<twin.val>>
            /\ outcome # "ok" => outcome = Rejection(op) /\ twin.tag = Rejection(Twin(op))

\* The checked radian constructor accepted the limits 2 pi and pi/2.
C10_Witness ==
    /\ op = "try_from_radians_and_meters"
    /\ args[1] = TAU
    /\ args[2] = FRAC_PI_2
    /\ outcome = "ok"

====
